---- MODULE Spec2Model ----
(***************************************************************************)
(* Envelope-encryption codec of rbaliyan/config-crypto.                    *)
(*                                                                         *)
(* Byte strings are sequences of integers 0..255.  Key buffers owned by a  *)
(* StaticKeyProvider live on a heap (address -> byte string), so that      *)
(* copies, aliases and zeroization are visible.  An error is the chain of  *)
(* messages and sentinels that errors.Is walks; the nil error is <<>>.     *)
(***************************************************************************)
EXTENDS Integers, Sequences, FiniteSets, TLC

VARIABLES provider, constructed, gen, heap, env, envMeta, last,
          args, threads, mu, codec, kmsCalls

vars == <<provider, constructed, gen, heap, env, envMeta, last,
          args, threads, mu, codec, kmsCalls>>

----------------------------------------------------------------------------
(* Binary format constants (format.go).                                    *)

magic == <<69, 67>>
formatVersion == 1
algAES256GCM == 1
aesKeySize == 32
gcmNonceSize == 12
gcmTagSize == 16
encryptedDEKSize == aesKeySize + gcmTagSize
minHeaderSize == 5
maxKeyIDLen == 255

----------------------------------------------------------------------------
(* Bounds of the model.                                                    *)

\* providers constructed in one run (the second one is the rotated one)
MaxProviders == 2
\* WithOldKey options passed to one NewStaticKeyProvider call
MaxOldKeys == 2
\* distinct outcomes of the random source for one encrypt call
MaxRand == 2
\* WithOldKey options of the provider whose envelopes are tampered with
MaxOldKeysTamper == 1

----------------------------------------------------------------------------
(* Byte-string helpers.                                                    *)

Fill(n, b) == [i \in 1..n |-> b]

\* Go's s[a:b] (0-based, half-open)
Slice(s, a, b) == SubSeq(s, a + 1, b)

\* x with bit b inverted
FlipBitOf(x, b) == IF (x \div (2 ^ b)) % 2 = 1 THEN x - 2 ^ b ELSE x + 2 ^ b

\* clear(buf)
Zeroed(buf) == [i \in 1..Len(buf) |-> 0]

IsZero(buf) == \A i \in 1..Len(buf) : buf[i] = 0

----------------------------------------------------------------------------
(* Errors: sentinels, wrapping with %w, and errors.Is.                     *)

NoError == <<>>
ErrKeyNotFound == <<"ErrKeyNotFound">>
ErrInvalidKeySize == <<"ErrInvalidKeySize">>
ErrInvalidFormat == <<"ErrInvalidFormat">>
ErrDecryptionFailed == <<"ErrDecryptionFailed">>
ErrInvalidKeyID == <<"ErrInvalidKeyID">>
ErrProviderDestroyed == <<"ErrProviderDestroyed">>

\* fmt.Errorf("msg: %w", err): the result unwraps to err
Wrap(msg, err) == <<msg>> \o err

\* errors.Is(err, target) for a sentinel target
errorsIs(err, target) == \E i \in 1..Len(err) : err[i] = target[1]

IsKeyNotFound(err) == errorsIs(err, ErrKeyNotFound)
IsInvalidKeySize(err) == errorsIs(err, ErrInvalidKeySize)
IsInvalidFormat(err) == errorsIs(err, ErrInvalidFormat)
IsDecryptionFailed(err) == errorsIs(err, ErrDecryptionFailed)
IsInvalidKeyID(err) == errorsIs(err, ErrInvalidKeyID)
IsProviderDestroyed(err) == errorsIs(err, ErrProviderDestroyed)

----------------------------------------------------------------------------
(* Binary header (format.go).                                              *)

headerSize(keyID) ==
    minHeaderSize + Len(keyID) + gcmNonceSize + encryptedDEKSize + gcmNonceSize

NilHeader ==
    [version |-> 0, algorithm |-> 0, keyID |-> <<>>,
     dekNonce |-> <<>>, encryptedDEK |-> <<>>, dataNonce |-> <<>>]

\* a writeHeader that puts no limit on the key ID
writeHeaderNoLimit(h) ==
    [out |-> magic \o <<h.version, h.algorithm, Len(h.keyID) % 256>>
               \o h.keyID \o h.dekNonce \o h.encryptedDEK \o h.dataNonce,
     err |-> NoError]

\* writeHeader into an empty bytes.Buffer: the bytes written and the error
writeHeader(h) ==
    IF Len(h.keyID) > maxKeyIDLen
    THEN [out |-> magic, err |-> Wrap("key ID too long", ErrInvalidFormat)]
    ELSE [out |-> magic \o <<h.version, h.algorithm, Len(h.keyID) % 256>>
                    \o h.keyID \o h.dekNonce \o h.encryptedDEK \o h.dataNonce,
          err |-> NoError]

readHeaderFail(msg) ==
    [h |-> NilHeader, rest |-> <<>>, err |-> Wrap(msg, ErrInvalidFormat)]

\* a readHeader that accepts every version byte
readHeaderAnyVersion(data) ==
    IF Len(data) < minHeaderSize THEN readHeaderFail("data too short")
    ELSE IF Slice(data, 0, 2) # magic THEN readHeaderFail("invalid magic bytes")
    ELSE IF data[4] # algAES256GCM THEN readHeaderFail("unsupported algorithm")
    ELSE LET keyIDLen == data[5]
             needed == keyIDLen + gcmNonceSize + encryptedDEKSize + gcmNonceSize
             o1 == minHeaderSize + keyIDLen
             o2 == o1 + gcmNonceSize
             o3 == o2 + encryptedDEKSize
             o4 == o3 + gcmNonceSize
         IN  IF Len(data) < minHeaderSize + needed
             THEN readHeaderFail("data too short for header")
             ELSE [h |-> [version |-> data[3], algorithm |-> data[4],
                          keyID |-> Slice(data, minHeaderSize, o1),
                          dekNonce |-> Slice(data, o1, o2),
                          encryptedDEK |-> Slice(data, o2, o3),
                          dataNonce |-> Slice(data, o3, o4)],
                   rest |-> Slice(data, o4, Len(data)),
                   err |-> NoError]

readHeader(data) ==
    IF Len(data) < minHeaderSize THEN readHeaderFail("data too short")
    ELSE IF Slice(data, 0, 2) # magic THEN readHeaderFail("invalid magic bytes")
    ELSE IF data[3] # formatVersion THEN readHeaderFail("unsupported version")
    ELSE IF data[4] # algAES256GCM THEN readHeaderFail("unsupported algorithm")
    ELSE LET keyIDLen == data[5]
             needed == keyIDLen + gcmNonceSize + encryptedDEKSize + gcmNonceSize
             o1 == minHeaderSize + keyIDLen
             o2 == o1 + gcmNonceSize
             o3 == o2 + encryptedDEKSize
             o4 == o3 + gcmNonceSize
         IN  IF Len(data) < minHeaderSize + needed
             THEN readHeaderFail("data too short for header")
             ELSE [h |-> [version |-> data[3], algorithm |-> data[4],
                          keyID |-> Slice(data, minHeaderSize, o1),
                          dekNonce |-> Slice(data, o1, o2),
                          encryptedDEK |-> Slice(data, o2, o3),
                          dataNonce |-> Slice(data, o3, o4)],
                   rest |-> Slice(data, o4, Len(data)),
                   err |-> NoError]

----------------------------------------------------------------------------
(* AES-256-GCM (crypto/aes, crypto/cipher), abstracted: Seal masks the      *)
(* plaintext with a stream that depends on key and nonce and appends a     *)
(* 16-byte tag that depends on key, nonce, additional data and plaintext;  *)
(* Open recomputes the tag and rejects any mismatch.  The four digests of  *)
(* the tag are position-weighted sums modulo the prime 257, so changing    *)
(* one byte of any input always changes the tag.                           *)

RECURSIVE WSumRange(_, _, _)
WSumRange(s, lo, hi) ==
    IF lo > hi THEN 0
    ELSE IF lo = hi THEN (lo * s[lo]) % 257
    ELSE (WSumRange(s, lo, (lo + hi) \div 2)
            + WSumRange(s, (lo + hi) \div 2 + 1, hi)) % 257

WSum(s) == WSumRange(s, 1, Len(s))

gcmStream(key, nonce) == (WSum(key) + 3 * WSum(nonce)) % 256

gcmTagOf(hk, hn, ha, hp, la, lp) ==
    <<hk % 256, hk \div 256, hn % 256, hn \div 256,
      ha % 256, ha \div 256, hp % 256, hp \div 256,
      la % 256, lp % 256, 165, 165, 165, 165, 165, 165>>

gcmTag(key, nonce, aad, pt) ==
    gcmTagOf(WSum(key), WSum(nonce), WSum(aad), WSum(pt), Len(aad), Len(pt))

gcmMask(plaintext, base) ==
    [i \in 1..Len(plaintext) |-> (plaintext[i] + base + 7 * i) % 256]

gcmUnmask(body, base) ==
    [i \in 1..Len(body) |-> (body[i] + 512 - base - ((7 * i) % 256)) % 256]

\* aes.NewCipher accepts 16-, 24- and 32-byte keys only
aesNewCipherOK(key) == Len(key) \in {16, 24, 32}

\* a Seal that appends no tag
gcmSealNoTag(key, nonce, plaintext, aad) ==
    gcmMask(plaintext, gcmStream(key, nonce))

\* cipher.AEAD.Seal(nil, nonce, plaintext, additionalData)
gcmSeal(key, nonce, plaintext, aad) ==
    gcmMask(plaintext, gcmStream(key, nonce)) \o gcmTag(key, nonce, aad, plaintext)

gcmVerify(key, nonce, aad, tag, pt) ==
    IF tag = gcmTag(key, nonce, aad, pt)
    THEN [ok |-> TRUE, pt |-> pt]
    ELSE [ok |-> FALSE, pt |-> <<>>]

\* cipher.AEAD.Open(nil, nonce, ciphertext, additionalData)
gcmOpen(key, nonce, ciphertext, aad) ==
    IF Len(ciphertext) < gcmTagSize
    THEN [ok |-> FALSE, pt |-> <<>>]
    ELSE gcmVerify(key, nonce, aad,
                   Slice(ciphertext, Len(ciphertext) - gcmTagSize, Len(ciphertext)),
                   gcmUnmask(Slice(ciphertext, 0, Len(ciphertext) - gcmTagSize),
                             gcmStream(key, nonce)))

\* a random source that hands out the same bytes on every call
RandConstant(r) ==
    [dek |-> Fill(aesKeySize, 101),
     dekNonce |-> Fill(gcmNonceSize, 151),
     dataNonce |-> Fill(gcmNonceSize, 201),
     fail |-> "none"]

\* the outcome r of crypto/rand for one encrypt call: DEK, DEK nonce, data
\* nonce; fail names the draw that returned an error, if one did
Rand(r) ==
    [dek |-> Fill(aesKeySize, 100 + r),
     dekNonce |-> Fill(gcmNonceSize, 150 + r),
     dataNonce |-> Fill(gcmNonceSize, 200 + r),
     fail |-> "none"]

\* the outcome r with the draw `where` failing; a failing draw into the DEK
\* buffer leaves its first n bytes written (io.ReadFull returns early)
RandFailing(r, where, n) ==
    [Rand(r) EXCEPT !.fail = where,
                    !.dek = IF where = "dek"
                            THEN [i \in 1..aesKeySize |-> IF i <= n THEN @[i] ELSE 0]
                            ELSE @]

\* the error of a failed read from rand.Reader
errRand == <<"rand: read failed">>

----------------------------------------------------------------------------
(* Key and StaticKeyProvider (key_provider.go, encrypt.go).                *)
(* A Key is its ID and the heap address of its byte buffer (0 is nil); a   *)
(* []byte argument is the heap address of the caller's buffer.             *)

ZeroKey == [ID |-> <<>>, Bytes |-> 0]

Deref(hp, a) == IF a = 0 THEN <<>> ELSE hp[a]

EmptyMap == [x \in {} |-> ZeroKey]

MapPut(m, k, v) == [x \in DOMAIN m \cup {k} |-> IF x = k THEN v ELSE m[x]]

NilProvider ==
    [current |-> ZeroKey, keys |-> EmptyMap, err |-> NoError, destroyed |-> FALSE]

\* an option that validates and applies although an earlier option failed
WithOldKeyLastError(st, keyBytes, id) ==
    IF Len(st.heap[keyBytes]) # aesKeySize
    THEN [st EXCEPT !.p.err = Wrap("old key has wrong size", ErrInvalidKeySize)]
    ELSE IF id = <<>>
    THEN [st EXCEPT !.p.err = Wrap("old key ID must not be empty", ErrInvalidKeyID)]
    ELSE LET b == Len(st.heap) + 1
         IN  [p |-> [st.p EXCEPT !.keys = MapPut(@, id, [ID |-> id, Bytes |-> b])],
              heap |-> Append(st.heap, st.heap[keyBytes])]

\* the option WithOldKey(keyBytes, id) applied to st = [p, heap]
WithOldKey(st, keyBytes, id) ==
    IF st.p.err # NoError THEN st
    ELSE IF Len(st.heap[keyBytes]) # aesKeySize
    THEN [st EXCEPT !.p.err = Wrap("old key has wrong size", ErrInvalidKeySize)]
    ELSE IF id = <<>>
    THEN [st EXCEPT !.p.err = Wrap("old key ID must not be empty", ErrInvalidKeyID)]
    ELSE LET b == Len(st.heap) + 1
         IN  [p |-> [st.p EXCEPT !.keys = MapPut(@, id, [ID |-> id, Bytes |-> b])],
              heap |-> Append(st.heap, st.heap[keyBytes])]

\* for _, opt := range opts { opt(p) }
RECURSIVE ApplyOpts(_, _)
ApplyOpts(st, opts) ==
    IF opts = <<>> THEN st
    ELSE ApplyOpts(WithOldKey(st, Head(opts).bytes, Head(opts).id), Tail(opts))

\* if p.err != nil { return nil, p.err }; return p, nil
newResult(st) ==
    IF st.p.err # NoError
    THEN [ok |-> FALSE, p |-> NilProvider, heap |-> st.heap, err |-> st.p.err]
    ELSE [ok |-> TRUE, p |-> st.p, heap |-> st.heap, err |-> NoError]

\* a provider that keeps the caller's slice instead of a copy of it
newProviderAliased(hp, keyBytes, id) ==
    [p |-> [current |-> [ID |-> id, Bytes |-> keyBytes],
            keys |-> MapPut(EmptyMap, id, [ID |-> id, Bytes |-> keyBytes]),
            err |-> NoError, destroyed |-> FALSE],
     heap |-> hp]

\* the provider before the options are applied: b := make([]byte, aesKeySize);
\* copy(b, keyBytes); current := Key{ID: id, Bytes: b}
newProvider(hp, keyBytes, id) ==
    [p |-> [current |-> [ID |-> id, Bytes |-> Len(hp) + 1],
            keys |-> MapPut(EmptyMap, id, [ID |-> id, Bytes |-> Len(hp) + 1]),
            err |-> NoError, destroyed |-> FALSE],
     heap |-> Append(hp, hp[keyBytes])]

\* NewStaticKeyProvider(keyBytes, id, opts...) called with the heap hp: ok is
\* "a provider is returned"
NewStaticKeyProvider(hp, keyBytes, id, opts) ==
    IF Len(hp[keyBytes]) # aesKeySize
    THEN [ok |-> FALSE, p |-> NilProvider, heap |-> hp,
          err |-> Wrap("got wrong size", ErrInvalidKeySize)]
    ELSE IF id = <<>>
    THEN [ok |-> FALSE, p |-> NilProvider, heap |-> hp,
          err |-> Wrap("key ID must not be empty", ErrInvalidKeyID)]
    ELSE newResult(ApplyOpts(newProvider(hp, keyBytes, id), opts))

\* p.CurrentKey(): return p.current, nil
CurrentKey(p) == [key |-> p.current, err |-> NoError]

\* a lookup that ignores the requested ID and answers with the current key
KeyByIDCurrent(p, id) == [key |-> p.current, err |-> NoError]

\* p.KeyByID(id)
KeyByID(p, id) ==
    IF id \notin DOMAIN p.keys
    THEN [key |-> ZeroKey, err |-> Wrap("key id", ErrKeyNotFound)]
    ELSE [key |-> p.keys[id], err |-> NoError]

\* the buffers the provider can still reach: the current key's and the mapping's
StoredBuffers(p) == {p.current.Bytes} \cup {p.keys[k].Bytes : k \in DOMAIN p.keys}

\* Destroy(): zero every stored key, clear the mapping, set the flag
Destroy(st) ==
    IF st.p.destroyed THEN st
    ELSE [p |-> [st.p EXCEPT !.keys = EmptyMap, !.destroyed = TRUE],
          heap |-> [a \in DOMAIN st.heap |->
                      IF a \in StoredBuffers(st.p) THEN Zeroed(st.heap[a])
                      ELSE st.heap[a]]]

----------------------------------------------------------------------------
(* encrypt and decrypt (encrypt.go).  A kek is [ID, Bytes] with the bytes  *)
(* themselves; rnd is the outcome of the random source for this call.      *)

\* a seal and open without additional authenticated data
AADUnbound(keyID) == <<>>

\* the additional authenticated data of both layers: []byte(kek.ID)
AAD(keyID) == keyID

\* defer clear(dek): the DEK buffer as the deferred call leaves it
deferClear(dek) == Zeroed(dek)

\* encrypt returns an error; dek is its DEK buffer at that moment (<<>>: none)
encryptFail(err, dek) == [data |-> <<>>, err |-> err, dek |-> dek]

\* writeHeader(&buf, h), then buf.Write(ciphertext)
assemble(w, ciphertext, dek) ==
    IF w.err # NoError
    THEN encryptFail(Wrap("crypto: failed to write header", w.err), dek)
    ELSE [data |-> w.out \o ciphertext, err |-> NoError, dek |-> dek]

\* encrypt(plaintext, kek); aes.NewCipher and cipher.NewGCM cannot fail on
\* the 32-byte keys that reach them
encrypt(plaintext, kek, rnd) ==
    IF Len(kek.Bytes) # aesKeySize
    THEN encryptFail(Wrap("got wrong size", ErrInvalidKeySize), <<>>)
    ELSE IF rnd.fail = "dek"
    THEN encryptFail(Wrap("crypto: failed to generate DEK", errRand), rnd.dek)
    ELSE IF rnd.fail = "dekNonce"
    THEN encryptFail(Wrap("crypto: failed to generate DEK nonce", errRand),
                     deferClear(rnd.dek))
    ELSE IF rnd.fail = "dataNonce"
    THEN encryptFail(Wrap("crypto: failed to generate data nonce", errRand),
                     deferClear(rnd.dek))
    ELSE assemble(
            writeHeader([version |-> formatVersion, algorithm |-> algAES256GCM,
                         keyID |-> kek.ID, dekNonce |-> rnd.dekNonce,
                         encryptedDEK |->
                            gcmSeal(kek.Bytes, rnd.dekNonce, rnd.dek, AAD(kek.ID)),
                         dataNonce |-> rnd.dataNonce]),
            gcmSeal(rnd.dek, rnd.dataNonce, plaintext, AAD(kek.ID)),
            deferClear(rnd.dek))

\* decrypt returns an error before it holds a DEK
decryptFail(err) == [plaintext |-> <<>>, err |-> err, dek |-> <<>>]

\* decrypt returns res after the DEK was unwrapped; dek is the DEK buffer
withDEK(res, dek) == [plaintext |-> res.plaintext, err |-> res.err, dek |-> dek]

\* an unwrap failure reported under the format sentinel
errUnwrapDEKAsFormat == Wrap("failed to decrypt DEK", ErrInvalidFormat)

\* fmt.Errorf("%w: failed to decrypt DEK", ErrDecryptionFailed)
errUnwrapDEK == Wrap("failed to decrypt DEK", ErrDecryptionFailed)

\* fmt.Errorf("%w: failed to decrypt data", ErrDecryptionFailed)
errOpenData == Wrap("failed to decrypt data", ErrDecryptionFailed)

\* kekGCM.Open(nil, h.dekNonce, h.encryptedDEK, []byte(h.keyID))
unwrapDEK(h, kekBytes) == gcmOpen(kekBytes, h.dekNonce, h.encryptedDEK, AAD(h.keyID))

\* dekGCM.Open(nil, h.dataNonce, ciphertext, []byte(h.keyID))
openData(h, dek, ciphertext) == gcmOpen(dek, h.dataNonce, ciphertext, AAD(h.keyID))

\* a decrypt that returns what Open returned without looking at its error
decryptDataUnchecked(o) == [plaintext |-> o.pt, err |-> NoError]

\* decrypt, after the data layer was opened with outcome o
decryptData(o) ==
    IF ~o.ok THEN decryptFail(errOpenData)
    ELSE [plaintext |-> o.pt, err |-> NoError]

\* decrypt, after the DEK was unwrapped with outcome d
decryptDEK(r, d) ==
    IF ~d.ok THEN decryptFail(errUnwrapDEK)
    ELSE IF ~aesNewCipherOK(d.pt)
    THEN withDEK(decryptFail(Wrap("aes", ErrDecryptionFailed)), deferClear(d.pt))
    ELSE withDEK(decryptData(openData(r.h, d.pt, r.rest)), deferClear(d.pt))

\* decrypt, after the provider answered KeyByID with k
decryptKEK(r, k, hp) ==
    IF k.err # NoError THEN decryptFail(k.err)
    ELSE IF Len(Deref(hp, k.key.Bytes)) # aesKeySize
    THEN decryptFail(Wrap("got wrong size", ErrInvalidKeySize))
    ELSE decryptDEK(r, unwrapDEK(r.h, Deref(hp, k.key.Bytes)))

\* decrypt, after readHeader returned r
decryptParsed(r, p, hp) ==
    IF r.err # NoError THEN decryptFail(r.err)
    ELSE decryptKEK(r, KeyByID(p, r.h.keyID), hp)

\* decrypt(data, provider) with the provider p and its buffers hp
decrypt(data, p, hp) == decryptParsed(readHeader(data), p, hp)

----------------------------------------------------------------------------
(* The inner codec (codec.Codec) and the encrypting Codec (crypto.go).     *)
(* The inner codec writes a string in quotes, writes the value "none" as   *)
(* no bytes at all, and cannot encode the value "chan".                    *)

Values == {"none", "x", "chan"}

\* the values the inner codec writes as a quoted string
Strings == {"x", "y"}

StrBytes(v) == IF v = "x" THEN <<120>> ELSE IF v = "y" THEN <<121>> ELSE <<63>>

innerEncode(v) ==
    IF v = "chan" THEN [out |-> <<>>, err |-> <<"json: unsupported type">>]
    ELSE IF v = "none" THEN [out |-> <<>>, err |-> NoError]
    ELSE [out |-> <<34>> \o StrBytes(v) \o <<34>>, err |-> NoError]

innerDecode(b) ==
    IF b = <<>> THEN [v |-> "none", err |-> NoError]
    ELSE IF Len(b) >= 2 /\ b[1] = 34 /\ b[Len(b)] = 34
            /\ \E v \in Strings : StrBytes(v) = Slice(b, 1, Len(b) - 1)
    THEN [v |-> CHOOSE v \in Strings :
                    StrBytes(v) = Slice(b, 1, Len(b) - 1),
          err |-> NoError]
    ELSE [v |-> "", err |-> <<"json: cannot unmarshal">>]

\* what Encode returns, with the Key it got from CurrentKey (ZeroKey when it
\* returned without calling CurrentKey)
encoded(res, key) == [data |-> res.data, err |-> res.err, dek |-> res.dek, key |-> key]

\* Encode, after inner.Encode returned e and (if reached) CurrentKey returned k
encodeWith(e, k, hp, rnd) ==
    IF e.err # NoError
    THEN encoded(encryptFail(Wrap("crypto: inner encode failed", e.err), <<>>), ZeroKey)
    ELSE IF k.err # NoError
    THEN encoded(encryptFail(Wrap("crypto: failed to get current key", k.err), <<>>),
                 k.key)
    ELSE encoded(encrypt(e.out, [ID |-> k.key.ID, Bytes |-> Deref(hp, k.key.Bytes)],
                         rnd), k.key)

\* Codec.Encode(v) over the provider p with buffers hp
CodecEncode(p, hp, v, rnd) == encodeWith(innerEncode(v), CurrentKey(p), hp, rnd)

\* an inner Decode error reported as a failed decryption
decodeInnerAsDecryption(i) ==
    IF i.err # NoError
    THEN [v |-> "", err |-> Wrap("crypto: inner decode failed", ErrDecryptionFailed),
          inner |-> TRUE]
    ELSE [v |-> i.v, err |-> NoError, inner |-> TRUE]

\* Decode, after inner.Decode returned i
decodeInner(i) ==
    IF i.err # NoError
    THEN [v |-> "", err |-> Wrap("crypto: inner decode failed", i.err), inner |-> TRUE]
    ELSE [v |-> i.v, err |-> NoError, inner |-> TRUE]

\* a Decode that goes on to the inner codec whatever decrypt returned
decodeWithUnchecked(d) == decodeInner(innerDecode(d.plaintext))

\* a Decode that formats the decrypt error with %v: the chain is lost
decodeWithOpaque(d) ==
    IF d.err # NoError
    THEN [v |-> "", err |-> <<"crypto: decrypt failed">>, inner |-> FALSE]
    ELSE decodeInner(innerDecode(d.plaintext))

\* Decode, after decrypt returned d
decodeWith(d) ==
    IF d.err # NoError
    THEN [v |-> "", err |-> Wrap("crypto: decrypt failed", d.err), inner |-> FALSE]
    ELSE decodeInner(innerDecode(d.plaintext))

\* Codec.Decode(data, &v): the decoded value, the error, and whether the
\* inner codec's Decode was called
CodecDecode(p, hp, data) == decodeWith(decrypt(data, p, hp))

\* inner.Decode(plaintext, &v) for a v of type target: only a string
\* variable can take what the inner codec wrote
innerDecodeInto(b, target) ==
    IF target = "string" THEN innerDecode(b)
    ELSE [v |-> "", err |-> <<"json: cannot unmarshal">>]

\* Codec.Decode(data, &v) for a v of type target, after decrypt returned d
decodeInto(d, target) ==
    IF d.err # NoError THEN decodeWith(d)
    ELSE decodeInner(innerDecodeInto(d.plaintext, target))

----------------------------------------------------------------------------
(* The inputs the operations are called with.                              *)

idA == <<97>>
idC == <<99>>
idAC == <<97, 99>>
idLong == Fill(maxKeyIDLen + 1, 120)

keyK1 == Fill(aesKeySize, 17)
keyK2 == Fill(aesKeySize, 34)
keyShort == Fill(16, 17)

\* NewStaticKeyProvider(bytes, id, ...) current keys: two valid ones, one of
\* the wrong size, one with an empty ID and one with a 256-byte ID
CurrentInputs ==
    {[bytes |-> keyK1, id |-> idA], [bytes |-> keyK2, id |-> idC],
     [bytes |-> keyShort, id |-> idA], [bytes |-> keyK1, id |-> <<>>],
     [bytes |-> keyK1, id |-> idLong]}

\* KeyByID(id) arguments
KeyIDInputs == {idA, idC, idAC, <<>>, idLong}

\* WithOldKey(bytes, id) options: two valid ones that share an ID (the ID of
\* a current key), one of the wrong size and one with an empty ID
OptInputs ==
    {[bytes |-> keyK1, id |-> idA], [bytes |-> keyK2, id |-> idA],
     [bytes |-> keyShort, id |-> idAC], [bytes |-> keyK1, id |-> <<>>]}
OptSeqs(n) == UNION {[1..k -> OptInputs] : k \in 0..n}

----------------------------------------------------------------------------
(* State.  provider/heap: the StaticKeyProvider in use and its buffers     *)
(* (constructed = FALSE: the variable is nil); gen counts the providers    *)
(* constructed so far.  env is the envelope at hand; envMeta remembers the *)
(* value, key and provider it was encoded with and what was done to it     *)
(* since.  last is the outcome of the latest operation; args are the      *)
(* arguments of the latest NewStaticKeyProvider call, as they were then.   *)
(* threads and mu belong to the concurrent callers further down.           *)

NoMeta ==
    [has |-> FALSE, v |-> "", keyID |-> <<>>, keyBytes |-> <<>>, gen |-> 0,
     tamper |-> "none", off |-> 0, bit |-> 0, newID |-> <<>>, before |-> <<>>]

\* what the caller sees of a call: the error, the value, key or ID returned
\* or passed, whether the inner codec's Decode ran, the draw r of the random
\* source, the DEK buffer of encrypt or decrypt as it was at return and the
\* plaintext passed or returned
Outcome(op, err) ==
    [op |-> op, err |-> err, v |-> "", inner |-> FALSE, key |-> ZeroKey, id |-> <<>>,
     r |-> 0, dek |-> <<>>, plain |-> <<>>]

NoArgs == [cur |-> [bytes |-> <<>>, id |-> <<>>], opts |-> <<>>]

\* no concurrent callers
NoThreads == <<>>

\* no inner codec (a nil codec.Codec) and no Codec (a nil *Codec)
NilInner == [nil |-> TRUE, name |-> ""]

NilCodec == [inner |-> NilInner, provider |-> FALSE, name |-> ""]

\* sync.RWMutex: the number of read locks held and whether the write lock is
Unlocked == [readers |-> 0, writer |-> FALSE]

\* the caller's buffers for a NewStaticKeyProvider call: the current key's at
\* address 1, the i-th option's at address 1 + i
callerHeap(cur, opts) == <<cur.bytes>> \o [i \in 1..Len(opts) |-> opts[i].bytes]

\* the options, each with the address of its buffer
optArgs(opts) == [i \in 1..Len(opts) |-> [bytes |-> 1 + i, id |-> opts[i].id]]

Init ==
    /\ provider = NilProvider
    /\ constructed = FALSE
    /\ gen = 0
    /\ heap = <<>>
    /\ env = <<>>
    /\ envMeta = NoMeta
    /\ last = Outcome("init", NoError)
    /\ args = NoArgs
    /\ threads = NoThreads
    /\ mu = Unlocked
    /\ codec = NilCodec
    /\ kmsCalls = <<>>

\* the caller keeps what NewStaticKeyProvider returned
Constructed(cur, opts, r) ==
    /\ provider' = r.p
    /\ constructed' = r.ok
    /\ heap' = r.heap
    /\ gen' = gen + 1
    /\ last' = Outcome("New", r.err)
    /\ args' = [cur |-> cur, opts |-> opts]
    /\ UNCHANGED <<env, envMeta, threads, mu, codec, kmsCalls>>

\* p, err := NewStaticKeyProvider(keyBytes, id, opts...), at most maxOpts options
Construct(maxOpts) ==
    \E cur \in CurrentInputs, opts \in OptSeqs(maxOpts) :
        Constructed(cur, opts,
                    NewStaticKeyProvider(callerHeap(cur, opts), 1, cur.id,
                                         optArgs(opts)))

\* A provider is constructed at start-up and again, with rotated keys, once
\* Encode has produced an envelope; what it becomes does not depend on what
\* was done in between.
ActNew ==
    /\ gen < MaxProviders
    /\ last.op = "init" \/ (last.op = "Encode" /\ envMeta.has)
    /\ Construct(MaxOldKeys)

\* the caller keeps what Encode returned
Encoded(v, r, e) ==
    /\ env' = e.data
    /\ envMeta' = IF e.err # NoError THEN NoMeta
                  ELSE [NoMeta EXCEPT !.has = TRUE, !.v = v,
                            !.keyID = provider.current.ID,
                            !.keyBytes = Deref(heap, provider.current.Bytes),
                            !.gen = gen]
    /\ last' = [Outcome("Encode", e.err) EXCEPT !.v = v, !.r = r, !.dek = e.dek,
                                                !.key = e.key]
    /\ UNCHANGED <<provider, constructed, gen, heap, args, threads, mu, codec, kmsCalls>>

\* data, err := codec.Encode(v)
ActEncode ==
    /\ constructed
    /\ \E v \in Values, r \in 1..MaxRand :
        Encoded(v, r, CodecEncode(provider, heap, v, Rand(r)))

\* the caller keeps what Decode returned
Decoded(d, dek) ==
    /\ last' = [Outcome("Decode", d.err) EXCEPT !.v = d.v, !.inner = d.inner,
                                                !.dek = dek]
    /\ UNCHANGED <<provider, constructed, gen, heap, env, envMeta, args, threads, mu, codec, kmsCalls>>

\* err := codec.Decode(data, &v)
ActDecode ==
    /\ constructed
    /\ envMeta.has
    /\ Decoded(CodecDecode(provider, heap, env), decrypt(env, provider, heap).dek)

\* the caller keeps the key and the error a getter returned
Got(op, id, k) ==
    /\ last' = [Outcome(op, k.err) EXCEPT !.key = k.key, !.id = id]
    /\ UNCHANGED <<provider, constructed, gen, heap, env, envMeta, args, threads, mu, codec, kmsCalls>>

\* key, err := p.CurrentKey()
ActCurrentKey ==
    /\ constructed
    /\ Got("CurrentKey", <<>>, CurrentKey(provider))

\* key, err := p.KeyByID(id)
ActKeyByID ==
    /\ constructed
    /\ \E id \in KeyIDInputs :
        Got("KeyByID", id, KeyByID(provider, id))

Destroyed(st) ==
    /\ provider' = st.p
    /\ heap' = st.heap
    /\ last' = [Outcome("Destroy", NoError) EXCEPT !.inner = provider.destroyed]
    /\ UNCHANGED <<constructed, gen, env, envMeta, args, threads, mu, codec, kmsCalls>>

\* p.Destroy()
ActDestroy ==
    /\ constructed
    /\ Destroyed(Destroy([p |-> provider, heap |-> heap]))

Next ==
    \/ ActNew
    \/ ActEncode
    \/ ActDecode
    \/ ActCurrentKey
    \/ ActKeyByID
    \/ ActDestroy

Spec == Init /\ [][Next]_vars

----------------------------------------------------------------------------
(* Tampering with an envelope in transit: one modification of an envelope  *)
(* that Encode produced, after which it is decoded by the same provider.   *)

Pristine == envMeta.has /\ envMeta.tamper = "none"

\* data[i] ^= 1 << b
ActFlipBit ==
    /\ Pristine
    /\ \E i \in 0..(Len(env) - 1), b \in 0..7 :
        /\ env' = [env EXCEPT ![i + 1] = FlipBitOf(@, b)]
        /\ envMeta' = [envMeta EXCEPT !.tamper = "flip", !.off = i, !.bit = b]
    /\ last' = Outcome("Tamper", NoError)
    /\ UNCHANGED <<provider, constructed, gen, heap, args, threads, mu, codec, kmsCalls>>

\* data[i] ^= 0xFF
ActInvertByte ==
    /\ Pristine
    /\ \E i \in 0..(Len(env) - 1) :
        /\ env' = [env EXCEPT ![i + 1] = 255 - @]
        /\ envMeta' = [envMeta EXCEPT !.tamper = "invert", !.off = i]
    /\ last' = Outcome("Tamper", NoError)
    /\ UNCHANGED <<provider, constructed, gen, heap, args, threads, mu, codec, kmsCalls>>

\* data = data[:n]
ActTruncate ==
    /\ Pristine
    /\ \E n \in 0..(Len(env) - 1) :
        /\ env' = Slice(env, 0, n)
        /\ envMeta' = [envMeta EXCEPT !.tamper = "truncate", !.off = n]
    /\ last' = Outcome("Tamper", NoError)
    /\ UNCHANGED <<provider, constructed, gen, heap, args, threads, mu, codec, kmsCalls>>

\* the header's key ID replaced by another one, the length byte adjusted
ActReplaceKeyID ==
    /\ Pristine
    /\ \E id \in {idA, idC, idAC} \ {envMeta.keyID} :
        /\ env' = Slice(env, 0, 4) \o <<Len(id)>> \o id
                    \o Slice(env, minHeaderSize + Len(envMeta.keyID), Len(env))
        /\ envMeta' = [envMeta EXCEPT !.tamper = "rekey", !.newID = id]
    /\ last' = Outcome("Tamper", NoError)
    /\ UNCHANGED <<provider, constructed, gen, heap, args, threads, mu, codec, kmsCalls>>

ActNewOnce ==
    /\ gen = 0
    /\ Construct(MaxOldKeysTamper)

\* the one envelope that is sent
ActEncodeOnce ==
    /\ ~envMeta.has
    /\ ActEncode

NextTamper ==
    \/ ActNewOnce
    \/ ActEncodeOnce
    \/ ActFlipBit
    \/ ActInvertByte
    \/ ActTruncate
    \/ ActReplaceKeyID
    \/ ActDecode

TamperSpec == Init /\ [][NextTamper]_vars

----------------------------------------------------------------------------
(* Concurrent callers of one StaticKeyProvider.  threads maps a thread to  *)
(* its position and local variables; a step of a thread is one statement   *)
(* of the method it runs.  The provider, the heap and mu are shared.       *)

MaxReaders == 2

NewThread(kind) ==
    [kind |-> kind, pc |-> "start", op |-> "", id |-> <<>>, key |-> ZeroKey,
     err |-> NoError, seen |-> <<>>, late |-> FALSE, todo |-> {}, half |-> 0,
     v |-> "", r |-> 0, plain |-> <<>>, data |-> <<>>, got |-> ""]

\* the getter calls a reader thread makes
ReaderCalls ==
    {[op |-> "CurrentKey", id |-> <<>>], [op |-> "KeyByID", id |-> idA],
     [op |-> "KeyByID", id |-> idC]}

\* thread t moves to pc with its locals changed to th
Step(t, th, pc) == threads' = [threads EXCEPT ![t] = [th EXCEPT !.pc = pc]]

At(t, kind, pc) == threads[t].kind = kind /\ threads[t].pc = pc

\* thread t is at pc inside a call of a getter of the provider
Calling(t, pc) == threads[t].kind \in {"reader", "worker"} /\ threads[t].pc = pc

\* go func() { p.CurrentKey() / p.KeyByID(id) }() per reader, go p.Destroy()
ActStartReaders ==
    /\ constructed
    /\ threads = NoThreads
    /\ \E calls \in [1..MaxReaders -> ReaderCalls] :
        threads' = [t \in 1..(MaxReaders + 1) |->
                      IF t <= MaxReaders
                      THEN [NewThread("reader") EXCEPT !.op = calls[t].op,
                                                       !.id = calls[t].id]
                      ELSE NewThread("destroyer")]
    /\ last' = Outcome("Go", NoError)
    /\ UNCHANGED <<provider, constructed, gen, heap, env, envMeta, args, mu, codec, kmsCalls>>

\* p.mu.RLock()
ActRLock ==
    \E t \in DOMAIN threads :
        /\ Calling(t, "start")
        /\ ~mu.writer
        /\ mu' = [mu EXCEPT !.readers = @ + 1]
        /\ Step(t, threads[t], "rlocked")
        /\ UNCHANGED <<provider, constructed, gen, heap, env, envMeta, last, args, codec, kmsCalls>>

\* the getter's result
getterResult(p, op, id) == IF op = "CurrentKey" THEN CurrentKey(p) ELSE KeyByID(p, id)

\* the body of the getter, under the read lock
ActRead ==
    \E t \in DOMAIN threads :
        /\ Calling(t, "rlocked")
        /\ LET k == getterResult(provider, threads[t].op, threads[t].id)
           IN  Step(t, [threads[t] EXCEPT !.key = k.key, !.err = k.err,
                                          !.late = provider.destroyed], "read")
        /\ UNCHANGED <<provider, constructed, gen, heap, env, envMeta, last, args, mu, codec, kmsCalls>>

\* defer p.mu.RUnlock(), and the getter returns
ActRUnlock ==
    \E t \in DOMAIN threads :
        /\ Calling(t, "read")
        /\ mu' = [mu EXCEPT !.readers = @ - 1]
        /\ Step(t, threads[t], "returned")
        /\ UNCHANGED <<provider, constructed, gen, heap, env, envMeta, last, args, codec, kmsCalls>>

\* the caller reads the bytes of the Key it was given
ActUse ==
    \E t \in DOMAIN threads :
        /\ At(t, "reader", "returned")
        /\ Step(t, [threads[t] EXCEPT !.seen = Deref(heap, threads[t].key.Bytes)], "done")
        /\ UNCHANGED <<provider, constructed, gen, heap, env, envMeta, last, args, mu, codec, kmsCalls>>

\* Destroy: p.mu.Lock(); a destroyed provider has nothing left to zero
ActLock ==
    \E t \in DOMAIN threads :
        /\ At(t, "destroyer", "start")
        /\ mu.readers = 0 /\ ~mu.writer
        /\ mu' = [mu EXCEPT !.writer = TRUE]
        /\ Step(t, [threads[t] EXCEPT !.todo = IF provider.destroyed THEN {}
                                               ELSE StoredBuffers(provider)],
                "locked")
        /\ UNCHANGED <<provider, constructed, gen, heap, env, envMeta, last, args, codec, kmsCalls>>

\* Destroy: clear(key.Bytes) of one stored key has zeroed its first half
ActZeroFirst ==
    \E t \in DOMAIN threads :
        /\ At(t, "destroyer", "locked")
        /\ threads[t].half = 0
        /\ \E a \in threads[t].todo :
            /\ heap' = [heap EXCEPT ![a] =
                          [i \in 1..Len(@) |-> IF 2 * i <= Len(@) THEN 0 ELSE @[i]]]
            /\ Step(t, [threads[t] EXCEPT !.half = a], "locked")
        /\ UNCHANGED <<provider, constructed, gen, env, envMeta, last, args, mu, codec, kmsCalls>>

\* Destroy: clear(key.Bytes) of that key is complete
ActZeroRest ==
    \E t \in DOMAIN threads :
        /\ At(t, "destroyer", "locked")
        /\ threads[t].half # 0
        /\ heap' = [heap EXCEPT ![threads[t].half] = Zeroed(@)]
        /\ Step(t, [threads[t] EXCEPT !.todo = @ \ {threads[t].half}, !.half = 0],
                "locked")
        /\ UNCHANGED <<provider, constructed, gen, env, envMeta, last, args, mu, codec, kmsCalls>>

\* Destroy: clear the mapping, set the flag
ActClear ==
    \E t \in DOMAIN threads :
        /\ At(t, "destroyer", "locked")
        /\ threads[t].todo = {}
        /\ provider' = [provider EXCEPT !.keys = EmptyMap, !.destroyed = TRUE]
        /\ Step(t, threads[t], "cleared")
        /\ UNCHANGED <<constructed, gen, heap, env, envMeta, last, args, mu, codec, kmsCalls>>

\* Destroy: defer p.mu.Unlock()
ActUnlock ==
    \E t \in DOMAIN threads :
        /\ At(t, "destroyer", "cleared")
        /\ mu' = [mu EXCEPT !.writer = FALSE]
        /\ Step(t, threads[t], "done")
        /\ UNCHANGED <<provider, constructed, gen, heap, env, envMeta, last, args, codec, kmsCalls>>

NextLock ==
    \/ ActNewOnce
    \/ ActStartReaders
    \/ ActRLock
    \/ ActRead
    \/ ActRUnlock
    \/ ActUse
    \/ ActLock
    \/ ActZeroFirst
    \/ ActZeroRest
    \/ ActClear
    \/ ActUnlock

LockSpec == Init /\ [][NextLock]_vars

----------------------------------------------------------------------------
(* Threads that share one Codec: each encodes its own value and decodes    *)
(* the envelope it got.  The getter calls inside Encode and decrypt take   *)
(* the provider's read lock as above.                                      *)

MaxWorkers == 2

\* the value thread t encodes: Encode(n) for the n-th goroutine
WorkerValue(t) == IF t = 1 THEN "x" ELSE IF t = 2 THEN "none" ELSE "y"

\* go func(n int) { c.Encode(n); c.Decode(data, &got) }(i)
ActStartWorkers ==
    /\ constructed
    /\ threads = NoThreads
    /\ threads' = [t \in 1..MaxWorkers |->
                     [NewThread("worker") EXCEPT !.pc = "begin", !.v = WorkerValue(t)]]
    /\ last' = Outcome("Go", NoError)
    /\ UNCHANGED <<provider, constructed, gen, heap, env, envMeta, args, mu, codec, kmsCalls>>

\* thread t returns from Encode or Decode with the error err
Fails(t, err) == Step(t, [threads[t] EXCEPT !.err = err], "done")

\* Encode: c.inner.Encode(v), then the call of c.provider.CurrentKey()
ActInnerEncode ==
    \E t \in DOMAIN threads :
        /\ At(t, "worker", "begin")
        /\ LET e == innerEncode(threads[t].v)
           IN  IF e.err # NoError
               THEN Fails(t, encodeWith(e, CurrentKey(NilProvider), <<>>, Rand(1)).err)
               ELSE Step(t, [threads[t] EXCEPT !.plain = e.out, !.op = "CurrentKey"],
                         "start")
        /\ UNCHANGED <<provider, constructed, gen, heap, env, envMeta, last, args, mu, codec, kmsCalls>>

\* Encode: CurrentKey has returned; encrypt(plaintext, key)
ActEncrypt ==
    \E t \in DOMAIN threads :
        /\ At(t, "worker", "returned")
        /\ threads[t].op = "CurrentKey"
        /\ \E r \in 1..MaxRand :
            LET e == encodeWith([out |-> threads[t].plain, err |-> NoError],
                                [key |-> threads[t].key, err |-> threads[t].err],
                                heap, Rand(r))
            IN  IF e.err # NoError THEN Fails(t, e.err)
                ELSE Step(t, [threads[t] EXCEPT !.data = e.data, !.r = r], "encoded")
        /\ UNCHANGED <<provider, constructed, gen, heap, env, envMeta, last, args, mu, codec, kmsCalls>>

\* Decode: decrypt reads the header, then calls provider.KeyByID(h.keyID)
ActReadHeader ==
    \E t \in DOMAIN threads :
        /\ At(t, "worker", "encoded")
        /\ LET rh == readHeader(threads[t].data)
           IN  IF rh.err # NoError THEN Fails(t, decodeWith(decryptFail(rh.err)).err)
               ELSE Step(t, [threads[t] EXCEPT !.op = "KeyByID", !.id = rh.h.keyID],
                         "start")
        /\ UNCHANGED <<provider, constructed, gen, heap, env, envMeta, last, args, mu, codec, kmsCalls>>

\* Decode: KeyByID has returned; the rest of decrypt, then c.inner.Decode
ActDecrypt ==
    \E t \in DOMAIN threads :
        /\ At(t, "worker", "returned")
        /\ threads[t].op = "KeyByID"
        /\ LET d == decodeWith(decryptKEK(readHeader(threads[t].data),
                                          [key |-> threads[t].key,
                                           err |-> threads[t].err], heap))
           IN  Step(t, [threads[t] EXCEPT !.err = d.err, !.got = d.v], "done")
        /\ UNCHANGED <<provider, constructed, gen, heap, env, envMeta, last, args, mu, codec, kmsCalls>>

NextConc ==
    \/ ActNewOnce
    \/ ActStartWorkers
    \/ ActInnerEncode
    \/ ActRLock
    \/ ActRead
    \/ ActRUnlock
    \/ ActEncrypt
    \/ ActReadHeader
    \/ ActDecrypt

ConcSpec == Init /\ [][NextConc]_vars

----------------------------------------------------------------------------
(* A caller that overwrites byte buffers it can reach: the buffers it      *)
(* passed to the constructor and the Bytes of a Key a getter returned.     *)

\* clear(got.Bytes) on the Key the last getter call returned
ActOverwriteReturned ==
    /\ last.op \in {"CurrentKey", "KeyByID"}
    /\ last.err = NoError
    /\ last.key.Bytes \in DOMAIN heap
    /\ ~IsZero(heap[last.key.Bytes])
    /\ heap' = [heap EXCEPT ![last.key.Bytes] = Zeroed(@)]
    /\ last' = [Outcome("OverwriteReturned", NoError) EXCEPT !.key = last.key]
    /\ UNCHANGED <<provider, constructed, gen, env, envMeta, args, threads, mu, codec, kmsCalls>>

\* clear(key) / clear(oldKey) on a buffer passed to NewStaticKeyProvider
ActOverwriteArg ==
    /\ constructed
    /\ \E a \in 1..(1 + Len(args.opts)) :
        /\ ~IsZero(heap[a])
        /\ heap' = [heap EXCEPT ![a] = Zeroed(@)]
        /\ last' = [Outcome("OverwriteArg", NoError) EXCEPT !.r = a]
    /\ UNCHANGED <<provider, constructed, gen, env, envMeta, args, threads, mu, codec, kmsCalls>>

NextBuffer ==
    \/ ActNewOnce
    \/ ActCurrentKey
    \/ ActKeyByID
    \/ ActOverwriteReturned
    \/ ActOverwriteArg
    \/ ActEncode
    \/ ActDecode

BufferSpec == Init /\ [][NextBuffer]_vars

\* the caller overwrites only the buffers it passed to the constructor
NextArg ==
    \/ ActNewOnce
    \/ ActOverwriteArg
    \/ ActCurrentKey
    \/ ActKeyByID

ArgSpec == Init /\ [][NextArg]_vars

----------------------------------------------------------------------------
(* Direct calls of the envelope primitives encrypt and decrypt, with every *)
(* outcome of the random source: each of the three draws may fail, the     *)
(* failing draw of the DEK after it has written part of the buffer.        *)

idMax == Fill(maxKeyIDLen, 120)

Plaintexts == {<<>>, <<7>>, <<34, 120, 34>>}

KEKInputs == {[ID |-> id, Bytes |-> b] : id \in {<<>>, idA, idAC, idMax, idLong},
                                          b \in {keyK1, keyShort}}

\* where a draw fails, and how many bytes the failing draw has written
DrawFailures ==
    {[where |-> "none", n |-> 0], [where |-> "dek", n |-> 0],
     [where |-> "dek", n |-> aesKeySize \div 2], [where |-> "dekNonce", n |-> 0],
     [where |-> "dataNonce", n |-> 0]}

\* the call before was a successful encrypt of the same plaintext and key
SameCall(plaintext, kek) ==
    /\ last.op = "encrypt" /\ last.err = NoError
    /\ last.plain = plaintext
    /\ args.cur = [bytes |-> kek.Bytes, id |-> kek.ID]

\* envMeta.before is the envelope the call before returned, when that was a
\* call on the same plaintext and key
Encrypted(plaintext, kek, r, e) ==
    /\ env' = e.data
    /\ envMeta' = IF e.err # NoError THEN NoMeta
                  ELSE [NoMeta EXCEPT !.has = TRUE, !.keyID = kek.ID,
                                      !.keyBytes = kek.Bytes,
                                      !.before = IF SameCall(plaintext, kek) THEN env
                                                 ELSE <<>>]
    /\ last' = [Outcome("encrypt", e.err) EXCEPT !.r = r, !.dek = e.dek,
                                                 !.plain = plaintext]
    /\ args' = [cur |-> [bytes |-> kek.Bytes, id |-> kek.ID], opts |-> <<>>]
    /\ UNCHANGED <<provider, constructed, gen, heap, threads, mu, codec, kmsCalls>>

\* data, err := encrypt(plaintext, kek); the draw is recorded as 0 when the
\* random source failed
ActEncryptKey ==
    \E plaintext \in Plaintexts, kek \in KEKInputs, r \in 1..MaxRand, f \in DrawFailures :
        Encrypted(plaintext, kek, IF f.where = "none" THEN r ELSE 0,
                  encrypt(plaintext, kek, IF f.where = "none" THEN Rand(r)
                                          ELSE RandFailing(r, f.where, f.n)))

\* data[len(data)-1] ^= 0xFF
ActCorruptTag ==
    /\ Pristine
    /\ env' = [env EXCEPT ![Len(env)] = 255 - @]
    /\ envMeta' = [envMeta EXCEPT !.tamper = "invert", !.off = Len(env) - 1]
    /\ last' = Outcome("Tamper", NoError)
    /\ UNCHANGED <<provider, constructed, gen, heap, args, threads, mu, codec, kmsCalls>>

\* plaintext, err := decrypt(data, provider), the provider holding the key
\* the envelope was made with
ActDecryptKey ==
    /\ envMeta.has
    /\ LET pr == newProvider(<<envMeta.keyBytes>>, 1, envMeta.keyID)
           d == decrypt(env, pr.p, pr.heap)
       IN  last' = [Outcome("decrypt", d.err) EXCEPT !.dek = d.dek,
                                                     !.plain = d.plaintext]
    /\ UNCHANGED <<provider, constructed, gen, heap, env, envMeta, args, threads, mu, codec, kmsCalls>>

NextEncrypt ==
    \/ ActEncryptKey
    \/ ActCorruptTag
    \/ ActDecryptKey

EncryptSpec == Init /\ [][NextEncrypt]_vars

----------------------------------------------------------------------------
(* Failures of the inner codec: a value it cannot encode, a variable it    *)
(* cannot decode into.                                                     *)

\* var got struct{ X chan int }; err = c.Decode(data, &got)
ActDecodeInto ==
    /\ constructed
    /\ envMeta.has
    /\ \E target \in {"string", "struct"} :
        LET d == decodeInto(decrypt(env, provider, heap), target)
        IN  last' = [Outcome("Decode", d.err) EXCEPT !.v = d.v, !.inner = d.inner]
    /\ UNCHANGED <<provider, constructed, gen, heap, env, envMeta, args, threads, mu, codec, kmsCalls>>

NextInner ==
    \/ ActNewOnce
    \/ ActEncode
    \/ ActDecodeInto

InnerSpec == Init /\ [][NextInner]_vars

----------------------------------------------------------------------------
(* Construction of the Codec (crypto.go).  codec is the *Codec the caller  *)
(* holds; its inner field stands for the inner codec object, whose Name()  *)
(* may answer differently later on.                                        *)

InnerInputs == {NilInner, [nil |-> FALSE, name |-> "json"], [nil |-> FALSE, name |-> "yaml"]}

\* NewCodec(inner, provider), hasProvider telling provider != nil
NewCodec(inner, hasProvider) ==
    IF inner.nil
    THEN [c |-> NilCodec, err |-> <<"crypto: NewCodec inner codec is nil">>]
    ELSE IF ~hasProvider
    THEN [c |-> NilCodec, err |-> <<"crypto: NewCodec provider is nil">>]
    ELSE [c |-> [inner |-> inner, provider |-> TRUE, name |-> "encrypted:" \o inner.name],
          err |-> NoError]

\* a Name that asks the inner codec on every call
NameLive(c) == "encrypted:" \o c.inner.name

\* Codec.Name()
Name(c) == c.name

\* c, err := NewCodec(inner, provider)
ActNewCodec ==
    /\ \E inner \in InnerInputs, hasProvider \in BOOLEAN :
        LET r == NewCodec(inner, hasProvider)
        IN  /\ codec' = r.c
            /\ last' = [Outcome("NewCodec", r.err) EXCEPT !.v = inner.name,
                                                          !.inner = ~inner.nil /\ hasProvider]
    /\ UNCHANGED <<provider, constructed, gen, heap, env, envMeta, args, threads, mu, kmsCalls>>

\* c.Name()
ActName ==
    /\ codec # NilCodec
    /\ last' = [Outcome("Name", NoError) EXCEPT !.v = Name(codec)]
    /\ UNCHANGED <<provider, constructed, gen, heap, env, envMeta, args, threads, mu,
                   codec, kmsCalls>>

\* the inner codec object starts to answer Name() with another name
ActRenameInner ==
    /\ codec # NilCodec
    /\ \E n \in {"json", "yaml", "toml"} \ {codec.inner.name} :
        codec' = [codec EXCEPT !.inner.name = n]
    /\ last' = Outcome("RenameInner", NoError)
    /\ UNCHANGED <<provider, constructed, gen, heap, env, envMeta, args, threads, mu, kmsCalls>>

NextCodec ==
    \/ ActNewOnce
    \/ ActNewCodec
    \/ ActName
    \/ ActRenameInner

CodecSpec == Init /\ [][NextCodec]_vars

----------------------------------------------------------------------------
(* The KMS adapters (awskms, gcpkms, azurekv, vault): New has the same     *)
(* body in all four.  An option is the key ID, the plaintext the client    *)
(* answers with for its ciphertext, and whether the client's call fails.   *)
(* The buffers the client returns are the heap addresses 1..n, in the      *)
(* order of the calls; kmsCalls is the client's log of option indices.     *)

MaxKmsKeys == 3

KmsOptInputs ==
    {[id |-> idA, bytes |-> keyK1, fail |-> FALSE],
     [id |-> idC, bytes |-> keyK2, fail |-> FALSE],
     [id |-> idC, bytes |-> keyK1, fail |-> FALSE],
     [id |-> idA, bytes |-> keyShort, fail |-> FALSE],
     [id |-> <<>>, bytes |-> keyK1, fail |-> FALSE],
     [id |-> idA, bytes |-> keyK1, fail |-> TRUE]}

errClient == <<"client: decrypt failed">>

\* the client's calls New makes for the options ks: up to the first that fails
kmsDecryptAll(ks) ==
    LET failing == {i \in 1..Len(ks) : ks[i].fail}
        n == IF failing = {} THEN Len(ks)
             ELSE CHOOSE i \in failing : \A j \in failing : i <= j
    IN  [calls |-> [i \in 1..n |-> i],
         err |-> IF failing = {} THEN NoError
                 ELSE Wrap("failed to decrypt key", errClient),
         heap |-> [i \in 1..(IF failing = {} THEN n ELSE n - 1) |-> ks[i].bytes]]

\* a New that leaves the plaintexts as the client returned them
kmsClearNone(hp, n) == hp

\* for _, k := range keys { clear(k.bytes) }
kmsClear(hp, n) == [a \in 1..Len(hp) |-> IF a <= n THEN Zeroed(hp[a]) ELSE hp[a]]

\* New, after NewStaticKeyProvider returned r for the n decrypted keys
kmsProvided(r, n, calls) ==
    IF ~r.ok
    THEN [ok |-> FALSE, p |-> NilProvider, heap |-> r.heap, calls |-> calls,
          err |-> Wrap("kms", r.err)]
    ELSE [ok |-> TRUE, p |-> r.p, heap |-> kmsClear(r.heap, n), calls |-> calls,
          err |-> NoError]

\* New, after the client calls returned d
kmsDecrypted(ks, d) ==
    IF d.err # NoError
    THEN [ok |-> FALSE, p |-> NilProvider, heap |-> d.heap, calls |-> d.calls,
          err |-> d.err]
    ELSE kmsProvided(NewStaticKeyProvider(d.heap, 1, ks[1].id,
                                          [i \in 1..(Len(ks) - 1) |->
                                              [bytes |-> i + 1, id |-> ks[i + 1].id]]),
                     Len(ks), d.calls)

\* New(ctx, client, opts...) for the options ks
kmsNew(ks) ==
    IF Len(ks) = 0
    THEN [ok |-> FALSE, p |-> NilProvider, heap |-> <<>>, calls |-> <<>>,
          err |-> <<"kms: at least one encrypted key is required">>]
    ELSE kmsDecrypted(ks, kmsDecryptAll(ks))

KmsConstructed(ks, r) ==
    /\ provider' = r.p
    /\ constructed' = r.ok
    /\ heap' = r.heap
    /\ kmsCalls' = r.calls
    /\ gen' = gen + 1
    /\ last' = [Outcome("KmsNew", r.err) EXCEPT !.r = Len(ks)]
    /\ args' = IF ks = <<>> THEN NoArgs
               ELSE [cur |-> [bytes |-> ks[1].bytes, id |-> ks[1].id,
                             fail |-> ks[1].fail],
                     opts |-> [i \in 1..(Len(ks) - 1) |->
                                 [bytes |-> ks[i + 1].bytes, id |-> ks[i + 1].id,
                                  fail |-> ks[i + 1].fail]]]
    /\ UNCHANGED <<env, envMeta, threads, mu, codec>>

\* provider, err := New(ctx, client, WithEncryptedKey(...), ...)
ActKmsNew ==
    /\ gen = 0
    /\ \E n \in 0..MaxKmsKeys : \E ks \in [1..n -> KmsOptInputs] :
        KmsConstructed(ks, kmsNew(ks))

NextKms ==
    \/ ActKmsNew
    \/ ActCurrentKey
    \/ ActKeyByID

KmsSpec == Init /\ [][NextKms]_vars

----------------------------------------------------------------------------
(* readHeader and writeHeader with their byte slices.  A slice is a buffer *)
(* of the heap, an offset into it and a length.  The buffer handed to      *)
(* readHeader is heap address 1; env keeps what it held at the call.  args *)
(* holds the header written, the bytes after it, the header parsed (its    *)
(* byte fields as slices) and the remainder readHeader returned.           *)

NilSlice == [buf |-> 0, off |-> 0, len |-> 0]

\* the bytes a slice shows
SliceBytes(hp, sl) ==
    IF sl.buf = 0 THEN <<>> ELSE Slice(hp[sl.buf], sl.off, sl.off + sl.len)

\* data[lo:hi]: a view of the buffer a
subslice(a, lo, hi) == [buf |-> a, off |-> lo, len |-> hi - lo]

\* a header field that shares the input's memory
appendAlias(a, lo, hi, fresh) == subslice(a, lo, hi)

\* append([]byte(nil), data[lo:hi]...): a slice over the fresh buffer
appendCopy(a, lo, hi, fresh) == [buf |-> fresh, off |-> 0, len |-> hi - lo]

NoHeaderArgs ==
    [written |-> NilHeader, c |-> <<>>,
     h |-> [version |-> 0, algorithm |-> 0, keyID |-> <<>>, dekNonce |-> NilSlice,
            encryptedDEK |-> NilSlice, dataNonce |-> NilSlice],
     rest |-> NilSlice, parsed |-> FALSE]

\* readHeader(data) for the buffer at address 1 of hp: the header's byte
\* fields are copies in the buffers 2, 3, 4 and the remainder is data[offset:]
readHeaderSlices(hp) ==
    LET r == readHeader(hp[1])
        o1 == minHeaderSize + Len(r.h.keyID)
        o2 == o1 + gcmNonceSize
        o3 == o2 + encryptedDEKSize
        o4 == o3 + gcmNonceSize
    IN  IF r.err # NoError
        THEN [h |-> NoHeaderArgs.h, rest |-> NilSlice, heap |-> hp, err |-> r.err,
              parsed |-> FALSE]
        ELSE [h |-> [version |-> r.h.version, algorithm |-> r.h.algorithm,
                     keyID |-> r.h.keyID,
                     dekNonce |-> appendCopy(1, o1, o2, 2),
                     encryptedDEK |-> appendCopy(1, o2, o3, 3),
                     dataNonce |-> appendCopy(1, o3, o4, 4)],
              rest |-> subslice(1, o4, Len(hp[1])),
              heap |-> hp \o <<r.h.dekNonce, r.h.encryptedDEK, r.h.dataNonce>>,
              err |-> NoError, parsed |-> TRUE]

HeaderIDs == {<<>>, idA, idMax, idLong}
Remainders == {<<>>, <<7, 8, 9>>}

HeaderOf(keyID) ==
    [version |-> formatVersion, algorithm |-> algAES256GCM, keyID |-> keyID,
     dekNonce |-> Fill(gcmNonceSize, 1), encryptedDEK |-> Fill(encryptedDEKSize, 2),
     dataNonce |-> Fill(gcmNonceSize, 3)]

HeaderFrame == UNCHANGED <<provider, constructed, gen, envMeta, threads, mu, codec, kmsCalls>>

\* writeHeader(&buf, h); input := append(buf.Bytes(), c...)
ActWriteHeader ==
    /\ last.op = "init"
    /\ \E keyID \in HeaderIDs, c \in Remainders :
        LET w == writeHeader(HeaderOf(keyID))
        IN  /\ env' = IF w.err = NoError THEN w.out \o c ELSE w.out
            /\ args' = [NoHeaderArgs EXCEPT !.written = HeaderOf(keyID), !.c = c]
            /\ last' = [Outcome("writeHeader", w.err) EXCEPT !.r = Len(w.out)]
    /\ heap' = <<>>
    /\ HeaderFrame

\* the caller cuts the input short before parsing it
ActCutInput ==
    /\ last.op = "writeHeader" /\ last.err = NoError
    /\ \E n \in 0..(Len(env) - 1) : env' = SubSeq(env, 1, n)
    /\ last' = Outcome("input", NoError)
    /\ UNCHANGED <<heap, args>>
    /\ HeaderFrame

\* the caller changes one of the five leading bytes before parsing
ActSetLeadingByte ==
    /\ last.op = "writeHeader" /\ last.err = NoError
    /\ \E i \in 1..minHeaderSize, b \in {0, 1, 2, 4, 255} :
        /\ env[i] # b
        /\ env' = [env EXCEPT ![i] = b]
    /\ last' = Outcome("input", NoError)
    /\ UNCHANGED <<heap, args>>
    /\ HeaderFrame

\* h, ciphertext, err := readHeader(input)
ActParseHeader ==
    /\ last.op \in {"writeHeader", "input"}
    /\ LET r == readHeaderSlices(<<env>>)
       IN  /\ heap' = r.heap
           /\ args' = [args EXCEPT !.h = r.h, !.rest = r.rest, !.parsed = r.parsed]
           /\ last' = [Outcome("readHeader", r.err) EXCEPT !.inner = (last.op = "writeHeader")]
    /\ UNCHANGED env
    /\ HeaderFrame

\* the caller writes a byte of the buffer it passed to readHeader
ActMutateInput ==
    /\ last.op = "readHeader" /\ args.parsed
    /\ \E i \in 1..Len(heap[1]) :
        heap' = [heap EXCEPT ![1][i] = (@ + 128) % 256]
    /\ last' = [last EXCEPT !.op = "mutateInput"]
    /\ UNCHANGED <<env, args>>
    /\ HeaderFrame

\* the caller writes a byte of the ciphertext readHeader returned
ActMutateCiphertext ==
    /\ last.op = "readHeader" /\ args.parsed
    /\ \E i \in 1..args.rest.len :
        heap' = [heap EXCEPT ![args.rest.buf][args.rest.off + i] = 255]
    /\ last' = [last EXCEPT !.op = "mutateCiphertext"]
    /\ UNCHANGED <<env, args>>
    /\ HeaderFrame

NextHeader ==
    \/ ActWriteHeader
    \/ ActCutInput
    \/ ActSetLeadingByte
    \/ ActParseHeader
    \/ ActMutateInput
    \/ ActMutateCiphertext

HeaderSpec == Init /\ [][NextHeader]_vars

----------------------------------------------------------------------------
(* The order of decrypt's checks: an envelope from encrypt is damaged in   *)
(* any combination of places and decrypted once.  args keeps the places    *)
(* damaged and the key IDs decrypt passed to the provider's KeyByID.       *)

Damages == {"header", "keyID", "kek", "wrappedDEK", "short", "data"}

\* the envelope data for key ID id, damaged in the places D
Damaged(data, id, D) ==
    LET hs == headerSize(id)
        cut == IF "short" \in D THEN Slice(data, 0, hs + 8) ELSE data
    IN  [i \in 1..Len(cut) |->
            IF i = 1 /\ "header" \in D THEN 0
            ELSE IF i > minHeaderSize /\ i <= minHeaderSize + Len(id) /\ "keyID" \in D
            THEN (cut[i] + 1) % 256
            ELSE IF i = minHeaderSize + Len(id) + gcmNonceSize + 1 /\ "wrappedDEK" \in D
            THEN 255 - cut[i]
            ELSE IF i = hs + 1 /\ "data" \in D THEN 255 - cut[i]
            ELSE cut[i]]

\* a provider that answers KeyByID(id) with a key of 16 bytes
badKeySizeProvider(id) ==
    [p |-> [current |-> [ID |-> id, Bytes |-> 1],
            keys |-> MapPut(EmptyMap, id, [ID |-> id, Bytes |-> 1]),
            err |-> NoError, destroyed |-> FALSE],
     heap |-> <<keyShort>>]

\* the key IDs decrypt passes to provider.KeyByID, in order
decryptLookups(data) ==
    IF readHeader(data).err # NoError THEN <<>>
    ELSE <<readHeader(data).h.keyID>>

\* data, err := encrypt(plaintext, kek), once
ActSealOnce ==
    /\ last.op = "init"
    /\ \E plaintext \in {<<>>, <<120>>}, id \in {idA, idAC}, r \in 1..MaxRand :
        Encrypted(plaintext, [ID |-> id, Bytes |-> keyK1], r,
                  encrypt(plaintext, [ID |-> id, Bytes |-> keyK1], Rand(r)))

ActDamage ==
    /\ last.op = "encrypt"
    /\ \E D \in SUBSET Damages :
        /\ env' = Damaged(env, envMeta.keyID, D)
        /\ args' = [damage |-> D, lookups |-> <<>>]
    /\ envMeta' = [envMeta EXCEPT !.tamper = "damage"]
    /\ last' = Outcome("Damage", NoError)
    /\ UNCHANGED <<provider, constructed, gen, heap, threads, mu, codec, kmsCalls>>

\* plaintext, err := decrypt(data, provider); the provider holds the key of
\* the envelope, or a key of 16 bytes under its ID
ActDecryptDamaged ==
    /\ last.op = "Damage"
    /\ LET pr == IF "kek" \in args.damage THEN badKeySizeProvider(envMeta.keyID)
                 ELSE newProvider(<<envMeta.keyBytes>>, 1, envMeta.keyID)
           d == decrypt(env, pr.p, pr.heap)
       IN  /\ last' = [Outcome("decrypt", d.err) EXCEPT !.plain = d.plaintext]
           /\ args' = [args EXCEPT !.lookups = decryptLookups(env)]
    /\ UNCHANGED <<provider, constructed, gen, heap, env, envMeta, threads, mu, codec, kmsCalls>>

NextOrder ==
    \/ ActSealOnce
    \/ ActDamage
    \/ ActDecryptDamaged

OrderSpec == Init /\ [][NextOrder]_vars

----------------------------------------------------------------------------
(* Properties.  last is the outcome of the latest operation; envMeta       *)
(* remembers how the envelope at hand came about.                          *)

\* the provider in use maps id to a key with these bytes
ProviderHolds(id, bytes) ==
    /\ id \in DOMAIN provider.keys
    /\ Deref(heap, provider.keys[id].Bytes) = bytes

\* the envelope at hand was encoded by the provider in use
OwnEnvelope == envMeta.has /\ envMeta.gen = gen

\* C1: every value the inner codec can encode is encoded without error by
\* every successfully constructed provider, and Decode of that envelope
\* under the same codec succeeds and yields the value.
C1_RoundTrip ==
    /\ (last.op = "Encode" /\ last.v # "chan" /\ ~provider.destroyed)
          => last.err = NoError
    /\ (last.op = "Decode" /\ OwnEnvelope /\ ~provider.destroyed)
          => (last.err = NoError /\ last.v = envMeta.v)

\* C2: an envelope whose header key ID was replaced by another ID, decoded
\* by a provider that holds the new ID with the very same key bytes, fails
\* with DecryptionFailed and yields no plaintext.
C2_KeyIDBinding ==
    (/\ last.op = "Decode"
     /\ envMeta.tamper = "rekey"
     /\ ProviderHolds(envMeta.newID, envMeta.keyBytes))
        => (IsDecryptionFailed(last.err) /\ ~last.inner /\ last.v = "")

C2_Witness ==
    /\ last.op = "Decode"
    /\ envMeta.tamper = "rekey"
    /\ ProviderHolds(envMeta.newID, envMeta.keyBytes)
    /\ readHeader(env).h.keyID = envMeta.newID
    /\ IsDecryptionFailed(last.err)

\* a single bit was flipped at an offset past magic, version and algorithm,
\* in an envelope made under a key the provider holds, and it was decoded
FlippedAndDecoded ==
    /\ last.op = "Decode"
    /\ envMeta.tamper = "flip"
    /\ envMeta.off >= 4
    /\ ProviderHolds(envMeta.keyID, envMeta.keyBytes)

\* C3 as stated: after a single-bit flip at an offset >= 4 decrypt fails with
\* InvalidFormat or DecryptionFailed and with no other kind of error.
C3_Original ==
    FlippedAndDecoded
        => (/\ last.err # NoError
            /\ IsInvalidFormat(last.err) \/ IsDecryptionFailed(last.err))

\* C3 amended: after a single-bit flip at an offset >= 4 decrypt fails, with
\* InvalidFormat, KeyNotFound or DecryptionFailed; KeyNotFound only when the
\* flip is in the key-ID length byte or the key-ID bytes.
C3_TamperDetected ==
    FlippedAndDecoded
        => (/\ last.err # NoError
            /\ ~last.inner
            /\ \/ IsInvalidFormat(last.err)
               \/ IsKeyNotFound(last.err)
               \/ IsDecryptionFailed(last.err)
            /\ IsKeyNotFound(last.err)
                  => envMeta.off < minHeaderSize + Len(envMeta.keyID))

C3_Witness ==
    /\ FlippedAndDecoded
    /\ envMeta.off >= headerSize(envMeta.keyID)
    /\ IsDecryptionFailed(last.err)

\* the envelope at hand was encoded by an earlier provider than the one in use
OtherProvider == envMeta.has /\ envMeta.gen # gen

\* C4: an envelope encoded under the current key (id1, K1) of one provider
\* decodes to its value under another provider that holds (id1, K1) as an
\* old key next to a different current key; and every envelope Encode
\* produces carries the encoding provider's current key ID in its header.
C4_RotationRead ==
    /\ (/\ last.op = "Decode"
        /\ OtherProvider
        /\ provider.current.ID # envMeta.keyID
        /\ ProviderHolds(envMeta.keyID, envMeta.keyBytes))
          => (last.err = NoError /\ last.v = envMeta.v)
    /\ (last.op = "Encode" /\ last.err = NoError)
          => readHeader(env).h.keyID = provider.current.ID

C4_Witness ==
    /\ last.op = "Decode"
    /\ OtherProvider
    /\ provider.current.ID # envMeta.keyID
    /\ Deref(heap, provider.current.Bytes) # envMeta.keyBytes
    /\ ProviderHolds(envMeta.keyID, envMeta.keyBytes)
    /\ last.v = "x"

\* the provider in use maps the envelope's key ID to other bytes than the
\* ones the envelope was made with
HoldsOtherBytes ==
    /\ envMeta.keyID \in DOMAIN provider.keys
    /\ Deref(heap, provider.keys[envMeta.keyID].Bytes) # envMeta.keyBytes

\* C5: decoding an envelope with a provider that holds the envelope's key ID
\* with different key bytes fails with an error matching DecryptionFailed;
\* the inner codec's Decode is not called and no value is produced.
C5_WrongKey ==
    (last.op = "Decode" /\ HoldsOtherBytes)
        => (IsDecryptionFailed(last.err) /\ ~last.inner /\ last.v = "")

C5_Witness ==
    /\ last.op = "Decode"
    /\ OtherProvider
    /\ HoldsOtherBytes
    /\ IsDecryptionFailed(last.err)

\* a well-formed envelope names a key ID the (live) provider does not hold
NamesUnknownKey ==
    /\ envMeta.has
    /\ ~provider.destroyed
    /\ envMeta.keyID \notin DOMAIN provider.keys

\* C6: decoding a well-formed envelope whose key ID the provider does not
\* hold fails, in decrypt and in Codec.Decode, with an error that matches
\* KeyNotFound by identity although the codec wraps it.
C6_KeyNotFound ==
    (last.op = "Decode" /\ NamesUnknownKey)
        => (/\ IsKeyNotFound(decrypt(env, provider, heap).err)
            /\ IsKeyNotFound(last.err)
            /\ last.err # decrypt(env, provider, heap).err
            /\ ~last.inner)

C6_Witness ==
    /\ last.op = "Decode"
    /\ NamesUnknownKey
    /\ readHeader(env).err = NoError
    /\ Head(last.err) = "crypto: decrypt failed"
    /\ IsKeyNotFound(last.err)

\* the envelope was cut so that n bytes follow the header, and decoded by a
\* provider that holds the key it was made with
CutAfterHeader(n) ==
    /\ last.op = "Decode"
    /\ envMeta.tamper = "truncate"
    /\ envMeta.off = headerSize(envMeta.keyID) + n
    /\ ProviderHolds(envMeta.keyID, envMeta.keyBytes)

\* C7: an envelope cut to its header alone, or to its header and 8 more
\* bytes, fails to decrypt with InvalidFormat and not with DecryptionFailed.
C7_ShortCiphertext ==
    (CutAfterHeader(0) \/ CutAfterHeader(8))
        => (IsInvalidFormat(last.err) /\ ~IsDecryptionFailed(last.err))

\* offset i lies in the 48-byte wrapped DEK of the envelope at hand
InWrappedDEK(i) ==
    /\ i >= minHeaderSize + Len(envMeta.keyID) + gcmNonceSize
    /\ i < minHeaderSize + Len(envMeta.keyID) + gcmNonceSize + encryptedDEKSize

\* a byte was changed (one bit or all bits) and the envelope decoded
ByteChangedAndDecoded ==
    /\ last.op = "Decode"
    /\ envMeta.tamper \in {"flip", "invert"}

\* C8: changing the last byte of an envelope, or any byte of its wrapped
\* DEK, makes Decode fail with an error matching DecryptionFailed and
\* neither InvalidFormat nor KeyNotFound.
C8_TamperKinds ==
    (/\ ByteChangedAndDecoded
     /\ envMeta.off = Len(env) - 1 \/ InWrappedDEK(envMeta.off))
        => (/\ IsDecryptionFailed(last.err)
            /\ ~IsInvalidFormat(last.err)
            /\ ~IsKeyNotFound(last.err))

C8_Witness ==
    /\ ByteChangedAndDecoded
    /\ envMeta.tamper = "invert"
    /\ InWrappedDEK(envMeta.off)
    /\ ProviderHolds(envMeta.keyID, envMeta.keyBytes)
    /\ Head(last.err) = "crypto: decrypt failed"
    /\ IsDecryptionFailed(last.err)

\* C9: once a provider was destroyed, every CurrentKey and KeyByID on it
\* fails with ProviderDestroyed (a further Destroy changes nothing).
C9_Lifecycle ==
    (provider.destroyed /\ last.op \in {"CurrentKey", "KeyByID"})
        => IsProviderDestroyed(last.err)

\* C10: when Destroy has returned, every key buffer the provider stored at
\* construction (current key and old keys) is all zero and the mapping from
\* IDs to keys is empty.
C10_DestroyZeroizes ==
    last.op = "Destroy"
        => (/\ \A a \in DOMAIN heap : a > 1 + Len(args.opts) => IsZero(heap[a])
            /\ provider.keys = EmptyMap)

\* the heap as NewStaticKeyProvider left it for the arguments args
OrigHeap ==
    NewStaticKeyProvider(callerHeap(args.cur, args.opts), 1, args.cur.id,
                         optArgs(args.opts)).heap

\* C11: whatever the interleaving of Destroy with concurrent getters, a
\* getter either fails with ProviderDestroyed or returns a Key whose bytes,
\* when the caller reads them, are the stored key as it was before Destroy;
\* a getter that runs after Destroy fails with ProviderDestroyed.
C11_DestroyExcludesReaders ==
    \A t \in DOMAIN threads :
        At(t, "reader", "done")
            => (/\ threads[t].err = NoError
                      => threads[t].seen = OrigHeap[threads[t].key.Bytes]
                /\ threads[t].late => IsProviderDestroyed(threads[t].err))

\* C12: overwriting the byte buffer of a Key a getter returned changes
\* neither the bytes later getter calls return nor the key later Encode and
\* Decode calls use: Decode ends as it would with the bytes left as stored.
C12_CopyOnReturn ==
    /\ (last.op \in {"CurrentKey", "KeyByID"} /\ last.err = NoError)
          => Deref(heap, last.key.Bytes) = OrigHeap[last.key.Bytes]
    /\ (last.op = "Encode" /\ last.err = NoError)
          => envMeta.keyBytes = OrigHeap[provider.current.Bytes]
    /\ last.op = "Decode"
          => (/\ last.err = CodecDecode(provider, OrigHeap, env).err
              /\ last.v = CodecDecode(provider, OrigHeap, env).v)

\* the bytes the constructor call gave for the key stored under id: the
\* last option naming id, the current key when no option names it
GivenBytes(id) ==
    LET hits == {i \in 1..Len(args.opts) : args.opts[i].id = id}
    IN  IF hits = {} THEN args.cur.bytes
        ELSE args.opts[CHOOSE i \in hits : \A j \in hits : j <= i].bytes

\* C13: after the caller overwrites the buffers it passed as bytes and
\* oldBytes, CurrentKey and KeyByID still return the bytes those buffers
\* held when the constructor was called.
C13_CopyOnConstruction ==
    /\ (last.op = "CurrentKey" /\ last.err = NoError)
          => Deref(heap, last.key.Bytes) = args.cur.bytes
    /\ (last.op = "KeyByID" /\ last.err = NoError)
          => Deref(heap, last.key.Bytes) = GivenBytes(last.id)

\* every argument buffer is overwritten and a getter has returned an old key
C13_Witness ==
    /\ last.op = "KeyByID" /\ last.err = NoError
    /\ last.id # args.cur.id
    /\ \A a \in 1..(1 + Len(args.opts)) : IsZero(heap[a])
    /\ ~IsZero(Deref(heap, last.key.Bytes))

\* C14: threads sharing one Codec over one StaticKeyProvider each encode a
\* value of their own and decode the envelope they got; under every
\* interleaving each thread's Encode and Decode succeed and the thread
\* decodes the value it encoded, and no step of a thread writes to the
\* provider or to the key buffers.
C14_ConcurrentUse ==
    [][/\ threads # NoThreads => (provider' = provider /\ heap' = heap)
       /\ \A t \in DOMAIN threads' :
            (threads'[t].kind = "worker" /\ threads'[t].pc = "done")
                => (threads'[t].err = NoError /\ threads'[t].got = threads'[t].v)]_vars

\* C15: on every return of encrypt after the DEK buffer was allocated and
\* the draw attempted (success, a failed draw of the DEK or of either nonce,
\* a failed header write) and on every return of decrypt, the DEK buffer
\* holds only zero bytes.
C15_DEKZeroized ==
    last.op \in {"encrypt", "decrypt"} => IsZero(last.dek)

\* the key and ID arguments of the constructor call, in argument order
GivenKeys == <<args.cur>> \o args.opts

ValidKey(k) == Len(k.bytes) = aesKeySize /\ k.id # <<>>

FirstInvalid ==
    CHOOSE i \in 1..Len(GivenKeys) :
        /\ ~ValidKey(GivenKeys[i])
        /\ \A j \in 1..(i - 1) : ValidKey(GivenKeys[j])

\* C16: NewStaticKeyProvider returns a provider exactly when the current key
\* and every WithOldKey option have 32 bytes and a non-empty ID; otherwise
\* it returns no provider and one error, InvalidKeySize or InvalidKeyID
\* according to what is wrong with the first invalid key in argument order,
\* and nothing after that key is applied (no buffer is allocated for it).
C16_ConstructionValidation ==
    last.op = "New" =>
        IF \A i \in 1..Len(GivenKeys) : ValidKey(GivenKeys[i])
        THEN constructed /\ last.err = NoError /\ provider # NilProvider
        ELSE /\ ~constructed
             /\ provider = NilProvider
             /\ IsInvalidKeySize(last.err) # IsInvalidKeyID(last.err)
             /\ IsInvalidKeySize(last.err)
                   => Len(GivenKeys[FirstInvalid].bytes) # aesKeySize
             /\ IsInvalidKeyID(last.err) => GivenKeys[FirstInvalid].id = <<>>
             /\ Len(heap) = Len(GivenKeys) + (FirstInvalid - 1)

\* a constructor call whose two options are invalid in different ways
C16_Witness ==
    /\ last.op = "New"
    /\ ValidKey(args.cur)
    /\ Len(args.opts) = 2
    /\ Len(args.opts[1].bytes) # aesKeySize /\ args.opts[1].id # <<>>
    /\ Len(args.opts[2].bytes) = aesKeySize /\ args.opts[2].id = <<>>
    /\ IsInvalidKeySize(last.err)

\* C17: every Key that CurrentKey or KeyByID of a successfully constructed,
\* non-destroyed provider returns has a non-empty ID of at most 255 bytes
\* and exactly 32 key bytes.
C17_KeyInvariant ==
    (last.op \in {"CurrentKey", "KeyByID"} /\ last.err = NoError
       /\ constructed /\ ~provider.destroyed)
        => (/\ last.key.ID # <<>>
            /\ Len(last.key.ID) <= maxKeyIDLen
            /\ Len(Deref(heap, last.key.Bytes)) = aesKeySize)

\* C18: for every plaintext and every 32-byte KEK whose ID has at most 255
\* bytes, encrypt (the random source delivering) succeeds and its output has
\* 93 + len(ID) + len(plaintext) bytes, which is the header size plus the
\* plaintext length plus the 16-byte tag.
C18_EnvelopeSize ==
    (last.op = "encrypt" /\ last.r > 0
       /\ Len(args.cur.bytes) = aesKeySize /\ Len(args.cur.id) <= maxKeyIDLen)
        => (/\ last.err = NoError
            /\ Len(env) = 93 + Len(args.cur.id) + Len(last.plain)
            /\ Len(env) = headerSize(args.cur.id) + Len(last.plain) + gcmTagSize)

\* a non-empty plaintext encrypted under a key with a 255-byte ID
C18_Witness ==
    /\ last.op = "encrypt" /\ last.err = NoError
    /\ Len(args.cur.id) = maxKeyIDLen
    /\ last.plain # <<>>
    /\ Len(env) = 93 + maxKeyIDLen + Len(last.plain)

\* decrypt of data by a provider holding the key of the last encrypt call
\* succeeds and returns plaintext
DecryptsTo(data, plaintext) ==
    LET pr == newProvider(<<args.cur.bytes>>, 1, args.cur.id)
        d == decrypt(data, pr.p, pr.heap)
    IN  d.err = NoError /\ d.plaintext = plaintext

\* two successful encrypt calls in a row on the same plaintext and key, the
\* random source not repeating itself
EncryptedTwice ==
    /\ last.op = "encrypt" /\ last.err = NoError
    /\ last'.op = "encrypt" /\ last'.err = NoError
    /\ args' = args
    /\ last'.plain = last.plain
    /\ last'.r # last.r

\* C19: two successive encrypt calls on the same plaintext and key draw a new
\* DEK, DEK nonce and data nonce each; with a random source that does not
\* repeat, the two envelopes differ and both decrypt to the plaintext.
C19_NonceFreshness ==
    [][EncryptedTwice
        => (/\ env' # env
            /\ readHeader(env').h.dekNonce # readHeader(env).h.dekNonce
            /\ readHeader(env').h.dataNonce # readHeader(env).h.dataNonce
            /\ readHeader(env').h.encryptedDEK # readHeader(env).h.encryptedDEK
            /\ DecryptsTo(env, last.plain)
            /\ DecryptsTo(env', last.plain))]_vars

\* the second of two encrypt calls on the same non-empty plaintext and key
\* has returned, with another draw than the first
C19_Witness ==
    /\ last.op = "encrypt" /\ last.err = NoError
    /\ last.plain # <<>>
    /\ envMeta.before # <<>>
    /\ envMeta.before # env
    /\ DecryptsTo(envMeta.before, last.plain)
    /\ DecryptsTo(env, last.plain)

\* the error matches none of the sentinel errors of the package
NoSentinel(err) ==
    /\ ~IsKeyNotFound(err)
    /\ ~IsInvalidFormat(err)
    /\ ~IsDecryptionFailed(err)
    /\ ~IsInvalidKeySize(err)
    /\ ~IsInvalidKeyID(err)
    /\ ~IsProviderDestroyed(err)

\* C20: when decrypt succeeds and the inner codec's Decode fails, the error
\* of Decode matches none of the sentinels; when the inner codec's Encode
\* fails, Encode returns an error that matches none of the sentinels, returns
\* no bytes and has not called CurrentKey.
C20_InnerErrorsDistinct ==
    /\ (last.op = "Decode" /\ last.inner /\ last.err # NoError)
          => NoSentinel(last.err)
    /\ (last.op = "Encode" /\ innerEncode(last.v).err # NoError)
          => (/\ last.err # NoError
              /\ NoSentinel(last.err)
              /\ env = <<>>
              /\ last.key = ZeroKey)

\* an authentic envelope was decrypted and the inner codec failed to decode
C20_Witness ==
    /\ last.op = "Decode"
    /\ last.inner
    /\ last.err # NoError
    /\ OwnEnvelope

KmsGiven == IF last.r = 0 THEN <<>> ELSE <<args.cur>> \o args.opts

\* C22: with no option New fails without calling the client; with options
\* whose client calls all succeed and return keys of 32 bytes under
\* non-empty IDs, New returns a provider whose current key is the first
\* option's ID and plaintext and in which KeyByID finds every later option's
\* plaintext under that option's ID.
C22_KmsConstruction ==
    last.op = "KmsNew" =>
        /\ last.r = 0 => (~constructed /\ last.err # NoError /\ kmsCalls = <<>>)
        /\ (/\ last.r > 0
            /\ \A i \in 1..last.r :
                 /\ ~KmsGiven[i].fail
                 /\ KmsGiven[i].id # <<>>
                 /\ Len(KmsGiven[i].bytes) = aesKeySize)
             => (/\ constructed
                 /\ provider.current.ID = args.cur.id
                 /\ Deref(heap, provider.current.Bytes) = args.cur.bytes
                 /\ \A i \in 2..last.r :
                      ProviderHolds(KmsGiven[i].id, KmsGiven[i].bytes))

\* C23: when New of a KMS adapter succeeds, the client has been called
\* exactly once per option, in the declared order; every plaintext buffer the
\* client returned is all zero; and the keys in the provider still hold the
\* plaintext values the client returned, the current key the first option's.
C23_KmsZeroization ==
    (constructed /\ kmsCalls # <<>>) =>
        /\ kmsCalls = [i \in 1..(1 + Len(args.opts)) |-> i]
        /\ \A a \in 1..Len(kmsCalls) : IsZero(heap[a])
        /\ Deref(heap, provider.current.Bytes) = args.cur.bytes
        /\ \A id \in DOMAIN provider.keys :
             /\ ~IsZero(Deref(heap, provider.keys[id].Bytes))
             /\ \E i \in 1..Len(kmsCalls) :
                  /\ (<<args.cur>> \o args.opts)[i].id = id
                  /\ Deref(heap, provider.keys[id].Bytes) =
                        (<<args.cur>> \o args.opts)[i].bytes

C23_Witness ==
    /\ last.op = "CurrentKey" /\ constructed /\ kmsCalls = <<1, 2, 3>>
    /\ IsZero(heap[1]) /\ IsZero(heap[3])
    /\ Deref(heap, last.key.Bytes) = keyK1
    /\ ProviderHolds(idC, keyK2)

\* C30: when New of a KMS adapter fails after the client returned at least
\* one plaintext, it returns no provider, the client has been called for the
\* options in order up to the failing call and for none after it, and every
\* plaintext buffer the client returned is all zero.
C30_KmsFailureZeroization ==
    (last.op = "KmsNew" /\ last.err # NoError /\ heap # <<>>) =>
        /\ ~constructed /\ provider = NilProvider
        /\ kmsCalls = [i \in 1..Len(kmsCalls) |-> i]
        /\ \A i \in 1..Len(kmsCalls) :
             KmsGiven[i].fail => i = Len(kmsCalls)
        /\ \A a \in 1..Len(heap) : IsZero(heap[a])

\* C29: in every provider that NewStaticKeyProvider returned, whatever IDs
\* its WithOldKey options carried, KeyByID of the current key's ID succeeds
\* and returns the same key bytes as CurrentKey.
C29_CurrentInMapping ==
    (constructed /\ ~provider.destroyed) =>
        /\ KeyByID(provider, CurrentKey(provider).key.ID).err = NoError
        /\ Deref(heap, KeyByID(provider, CurrentKey(provider).key.ID).key.Bytes) =
              Deref(heap, CurrentKey(provider).key.Bytes)

\* the header readHeader returned, its byte fields read through their slices
ParsedHeader ==
    [version |-> args.h.version, algorithm |-> args.h.algorithm, keyID |-> args.h.keyID,
     dekNonce |-> SliceBytes(heap, args.h.dekNonce),
     encryptedDEK |-> SliceBytes(heap, args.h.encryptedDEK),
     dataNonce |-> SliceBytes(heap, args.h.dataNonce)]

\* the input satisfies the five conditions of a well-formed header
WellFormed(buf) ==
    /\ Len(buf) >= 5
    /\ buf[1] = 69 /\ buf[2] = 67
    /\ buf[3] = 1
    /\ buf[4] = 1
    /\ Len(buf) >= 77 + buf[5]

\* C25: readHeader succeeds exactly when the input has at least 5 bytes,
\* starts with "EC", has version 1 and algorithm 1 and has at least
\* 77 + buf[4] bytes; otherwise it fails with ErrInvalidFormat and returns
\* no header and no remainder.  What it returns on success lies within the
\* input: the key ID has buf[4] bytes, the nonces 12, the wrapped DEK 48 and
\* the remainder is what follows the 77 + buf[4] bytes.
C25_ReadHeaderValidation ==
    last.op = "readHeader" =>
        /\ last.err = NoError <=> WellFormed(env)
        /\ last.err = NoError <=> args.parsed
        /\ ~WellFormed(env) =>
              /\ IsInvalidFormat(last.err)
              /\ args.h = NoHeaderArgs.h /\ args.rest = NilSlice
              /\ heap = <<env>>
        /\ WellFormed(env) =>
              /\ Len(ParsedHeader.keyID) = env[5]
              /\ Len(ParsedHeader.dekNonce) = 12
              /\ Len(ParsedHeader.encryptedDEK) = 48
              /\ Len(ParsedHeader.dataNonce) = 12
              /\ args.rest.off = 77 + env[5]
              /\ args.rest.off + args.rest.len = Len(env)

C25_Witness ==
    /\ last.op = "readHeader" /\ ~last.inner
    /\ last.err = NoError
    /\ env[5] = 0 /\ args.written.keyID = idA
    /\ ParsedHeader.keyID = <<>>
    /\ args.rest.len = 1

\* C26: for a key ID of 0 to 255 bytes writeHeader succeeds and writes
\* exactly 77 + len(keyID) bytes, and readHeader of those bytes followed by
\* any bytes c returns a header equal to the one written and the remainder
\* c; for a key ID of 256 bytes or more writeHeader fails with
\* ErrInvalidFormat.
C26_HeaderRoundTrip ==
    /\ last.op = "writeHeader" =>
          IF Len(args.written.keyID) <= 255
          THEN /\ last.err = NoError
               /\ last.r = 77 + Len(args.written.keyID)
               /\ last.r = headerSize(args.written.keyID)
          ELSE IsInvalidFormat(last.err)
    /\ (last.op = "readHeader" /\ last.inner /\ Len(args.written.keyID) <= 255) =>
          /\ last.err = NoError
          /\ ParsedHeader = args.written
          /\ SliceBytes(heap, args.rest) = args.c

C26_Witness ==
    /\ last.op = "readHeader" /\ last.inner /\ last.err = NoError
    /\ ParsedHeader.keyID = idMax
    /\ SliceBytes(heap, args.rest) = <<7, 8, 9>>

\* C27: after readHeader returned a header, a write to the buffer that was
\* parsed or to the returned remainder leaves the header's key ID, DEK
\* nonce, wrapped DEK and data nonce as they were parsed.
C27_HeaderIsolation ==
    last.op \in {"mutateInput", "mutateCiphertext"} =>
        /\ ParsedHeader.keyID = readHeader(env).h.keyID
        /\ ParsedHeader.dekNonce = readHeader(env).h.dekNonce
        /\ ParsedHeader.encryptedDEK = readHeader(env).h.encryptedDEK
        /\ ParsedHeader.dataNonce = readHeader(env).h.dataNonce

C27_Witness ==
    /\ last.op = "mutateInput" /\ args.parsed
    /\ heap[1][minHeaderSize + Len(args.h.keyID) + gcmNonceSize + 1] # 2
    /\ ParsedHeader.encryptedDEK = Fill(encryptedDEKSize, 2)

\* C28: overwriting the ciphertext readHeader returned leaves the buffer
\* that was passed to readHeader as it was.
C28_CiphertextIsolation ==
    last.op = "mutateCiphertext" => heap[1] = env

\* C24: decrypt checks in the order header, key lookup, KEK length,
\* wrapped DEK, ciphertext length, data, and returns the error of the first
\* check that fails: ErrInvalidFormat, ErrKeyNotFound, ErrInvalidKeySize,
\* ErrDecryptionFailed, ErrInvalidFormat, ErrDecryptionFailed in that order.
\* KeyByID is called at most once, with the key ID of the header, and not at
\* all when the header does not parse.
C24_DecryptOrder ==
    last.op = "decrypt" =>
        IF "header" \in args.damage
        THEN IsInvalidFormat(last.err) /\ args.lookups = <<>>
        ELSE /\ args.lookups = <<readHeader(env).h.keyID>>
             /\ IF "keyID" \in args.damage THEN IsKeyNotFound(last.err)
                ELSE IF "kek" \in args.damage THEN IsInvalidKeySize(last.err)
                ELSE IF "wrappedDEK" \in args.damage THEN IsDecryptionFailed(last.err)
                ELSE IF "short" \in args.damage THEN IsInvalidFormat(last.err)
                ELSE IF "data" \in args.damage THEN IsDecryptionFailed(last.err)
                ELSE last.err = NoError

====
